---- MODULE Spec2Model ----
(***************************************************************************)
(* Ants on a string (src/src/main.rs).  A position is held as its         *)
(* numerator over One; with One a power of two every f64 operation of the  *)
(* program (add, subtract, halve, times 100.0) is exact on such values and *)
(* is the integer operation on the numerators.  time_taken is held as      *)
(* One times its value.                                                    *)
(* Sequences are 1-based here; the program's indices (idx_of_first, the    *)
(* entries of facing_eachother) keep their 0-based values.                 *)
(***************************************************************************)
EXTENDS Integers, Sequences, FiniteSets, TLC

\* Largest number of ants in an initial ensemble.
MaxAnts == 4
\* Initial positions are the even grid points 0, 2, ..., 2*Grid.
Grid == 4
\* The numerator of the position 1.0 (the top end of the string).
One == 2 * Grid
\* f64::MAX, the "unavailable" sentinel: larger than every distance.
F64MAX == 1000000
\* Longest positions or directions vector handed to from_positions.
MaxInput == 2
\* Exploration stops once time_taken leaves -Scale*MaxTime..Scale*MaxTime
\* or a position leaves -MaxDrift..One+MaxDrift.
MaxTime == 30
MaxDrift == 10
\* The factor 100.0 that turns a distance into time.
Scale == 100

VARIABLES pos, dists, facing_up, time_taken, pc, event

vars == <<pos, dists, facing_up, time_taken, pc, event>>

NoEvent == [kind |-> "None"]

----------------------------------------------------------------------------
\* fn diff: adjacent differences, empty for an empty or one-element input.
diff(x) ==
    IF Len(x) = 0 THEN <<>>
    ELSE [idx \in 1..(Len(x) - 1) |-> x[idx + 1] - x[idx]]

\* The loop of min_and_pos over v[from..], carrying (min, pos); pos is 0-based.
RECURSIVE min_and_pos_loop(_, _, _, _)
min_and_pos_loop(v, from, min, p) ==
    IF from > Len(v) THEN <<min, p>>
    ELSE IF v[from] < min
         THEN min_and_pos_loop(v, from + 1, v[from], from - 1)
         ELSE min_and_pos_loop(v, from + 1, min, p)

\* fn min_and_pos: the minimum of v and the 0-based position of its first
\* occurrence.
min_and_pos(v) == min_and_pos_loop(v, 1, v[1], 0)

\* Variant of facing_eachother whose filter is reversed: lower ant facing
\* down, upper ant facing up.
facing_eachother_reversed(f) ==
    SelectSeq([i \in 1..(Len(f) - 1) |-> i - 1],
              LAMBDA i : ~f[i + 1] /\ f[i + 2])

\* The 0-based indices i of adjacent pairs (i, i+1) with ant i facing up
\* and ant i+1 facing down, in ascending order.
facing_eachother(f) ==
    SelectSeq([i \in 1..(Len(f) - 1) |-> i - 1],
              LAMBDA i : f[i + 1] /\ ~f[i + 2])

\* Half of the stored gap of every facing pair.
relevant_dists(f, ds) ==
    LET fe == facing_eachother(f)
    IN  [k \in 1..Len(fe) |-> ds[fe[k] + 1] \div 2]

\* Variant of btm_dist that drops the negation of facing_up[0].
btm_dist_facing_up(p, f) == IF f[1] THEN p[1] ELSE F64MAX

btm_dist(p, f) == IF ~f[1] THEN p[1] ELSE F64MAX

top_dist(p, f) == IF f[Len(f)] THEN One - p[Len(p)] ELSE F64MAX

\* (ant_dist, idx) as find_next_event computes them.
ant_dist_idx(f, ds) ==
    LET rd == relevant_dists(f, ds)
    IN  IF Len(rd) # 0 THEN min_and_pos(rd) ELSE <<F64MAX, 0>>

\* Variant of find_next_event that tests the bottom candidate first.
find_next_event_btm_first(p, ds, f) ==
    LET btm == btm_dist(p, f)
        top == top_dist(p, f)
        ai  == ant_dist_idx(f, ds)
        ant == ai[1]
        idx == ai[2]
    IN  IF (btm <= top) /\ (btm <= ant) THEN [kind |-> "AntDropsOffBottom"]
        ELSE IF (top <= btm) /\ (top <= ant) THEN [kind |-> "AntDropsOffTop"]
        ELSE IF (ant <= top) /\ (ant <= btm)
             THEN [kind |-> "AntsCollide", idx_of_first |-> idx]
        ELSE [kind |-> "Panic"]

\* Variant of find_next_event that compares with < instead of <=.
find_next_event_strict(p, ds, f) ==
    LET btm == btm_dist(p, f)
        top == top_dist(p, f)
        ai  == ant_dist_idx(f, ds)
        ant == ai[1]
        idx == ai[2]
    IN  IF (top < btm) /\ (top < ant) THEN [kind |-> "AntDropsOffTop"]
        ELSE IF (btm < top) /\ (btm < ant) THEN [kind |-> "AntDropsOffBottom"]
        ELSE IF (ant < top) /\ (ant < btm)
             THEN [kind |-> "AntsCollide", idx_of_first |-> idx]
        ELSE [kind |-> "Panic"]

\* fn find_next_event on an ensemble with at least one ant.
find_next_event(p, ds, f) ==
    LET btm == btm_dist(p, f)
        top == top_dist(p, f)
        ai  == ant_dist_idx(f, ds)
        ant == ai[1]
        idx == ai[2]
    IN  IF (top <= btm) /\ (top <= ant) THEN [kind |-> "AntDropsOffTop"]
        ELSE IF (btm <= top) /\ (btm <= ant) THEN [kind |-> "AntDropsOffBottom"]
        ELSE IF (ant <= top) /\ (ant <= btm)
             THEN [kind |-> "AntsCollide", idx_of_first |-> idx]
        ELSE [kind |-> "Panic"]

\* "The rest move": every ant moves by d in its own facing direction.
move(p, f, d) ==
    [i \in 1..Len(p) |-> IF f[i] THEN p[i] + d ELSE p[i] - d]

\* A departure with one ant left, as written for both ends: pos[0] is
\* added to the time, nothing is removed, true is returned.
take_step_last(p, ds, f, t) ==
    [pos |-> p, dists |-> ds, facing_up |-> f,
     time_taken |-> t + Scale * p[1], ret |-> TRUE]

\* Variant of take_step_bottom that reads d after pop_front.
take_step_bottom_d_after_pop(p, ds, f, t) ==
    IF Len(p) = 1 THEN take_step_last(p, ds, f, t)
    ELSE LET p1 == Tail(p)
             f1 == Tail(f)
             d  == p1[1]
             p2 == move(p1, f1, d)
         IN  [pos |-> p2, dists |-> diff(p2), facing_up |-> f1,
              time_taken |-> t + Scale * d, ret |-> FALSE]

\* Variant of take_step_bottom that leaves dists as it was.
take_step_bottom_stale_dists(p, ds, f, t) ==
    IF Len(p) = 1 THEN take_step_last(p, ds, f, t)
    ELSE LET d  == p[1]
             p1 == Tail(p)
             f1 == Tail(f)
             p2 == move(p1, f1, d)
         IN  [pos |-> p2, dists |-> ds, facing_up |-> f1,
              time_taken |-> t + Scale * d, ret |-> FALSE]

\* take_step, arm Event::AntDropsOffBottom.
take_step_bottom(p, ds, f, t) ==
    IF Len(p) = 1 THEN take_step_last(p, ds, f, t)
    ELSE LET d  == p[1]
             p1 == Tail(p)
             f1 == Tail(f)
             p2 == move(p1, f1, d)
         IN  [pos |-> p2, dists |-> diff(p2), facing_up |-> f1,
              time_taken |-> t + Scale * d, ret |-> FALSE]

\* Variant of take_step_top that removes with pop_front.
take_step_top_pop_front(p, ds, f, t) ==
    IF Len(p) = 1 THEN take_step_last(p, ds, f, t)
    ELSE LET d  == One - p[Len(p)]
             p1 == Tail(p)
             f1 == Tail(f)
             p2 == move(p1, f1, d)
         IN  [pos |-> p2, dists |-> diff(p2), facing_up |-> f1,
              time_taken |-> t + Scale * d, ret |-> FALSE]

\* take_step, arm Event::AntDropsOffTop.
take_step_top(p, ds, f, t) ==
    IF Len(p) = 1 THEN take_step_last(p, ds, f, t)
    ELSE LET d  == One - p[Len(p)]
             p1 == SubSeq(p, 1, Len(p) - 1)
             f1 == SubSeq(f, 1, Len(f) - 1)
             p2 == move(p1, f1, d)
         IN  [pos |-> p2, dists |-> diff(p2), facing_up |-> f1,
              time_taken |-> t + Scale * d, ret |-> FALSE]

\* Variant of take_step_collide that swaps the directions before the move.
take_step_collide_flip_first(p, ds, f, t, idx_of_first) ==
    LET d  == (p[idx_of_first + 2] - p[idx_of_first + 1]) \div 2
        f2 == [f EXCEPT ![idx_of_first + 1] = ~f[idx_of_first + 1],
                        ![idx_of_first + 2] = ~f[idx_of_first + 2]]
        p2 == move(p, f2, d)
    IN  [pos |-> p2, dists |-> diff(p2), facing_up |-> f2,
         time_taken |-> t + Scale * d, ret |-> FALSE]

\* take_step, arm Event::AntsCollide { idx_of_first }.
take_step_collide(p, ds, f, t, idx_of_first) ==
    LET d  == (p[idx_of_first + 2] - p[idx_of_first + 1]) \div 2
        p2 == move(p, f, d)
        f2 == [f EXCEPT ![idx_of_first + 1] = ~f[idx_of_first + 1],
                        ![idx_of_first + 2] = ~f[idx_of_first + 2]]
    IN  [pos |-> p2, dists |-> diff(p2), facing_up |-> f2,
         time_taken |-> t + Scale * d, ret |-> FALSE]

\* fn take_step: the new fields and the returned flag.
take_step(p, ds, f, t, ev) ==
    IF ev.kind = "AntDropsOffBottom" THEN take_step_bottom(p, ds, f, t)
    ELSE IF ev.kind = "AntDropsOffTop" THEN take_step_top(p, ds, f, t)
    ELSE take_step_collide(p, ds, f, t, ev.idx_of_first)

----------------------------------------------------------------------------
\* Strictly ascending sequences of n even grid points.
RECURSIVE Ascending(_, _)
Ascending(n, lo) ==
    IF n = 0 THEN {<<>>}
    ELSE UNION {{<<2 * k>> \o s : s \in Ascending(n - 1, k + 1)} : k \in lo..Grid}

\* The ensemble as constructed: positions ascending, one direction per ant,
\* dists derived from pos, time_taken zero.
Init ==
    \E n \in 1..MaxAnts :
      \E p \in Ascending(n, 0) :
        \E f \in [1..n -> BOOLEAN] :
          /\ pos = p
          /\ dists = diff(p)
          /\ facing_up = f
          /\ time_taken = 0
          /\ pc = "detect"
          /\ event = NoEvent

\* The window of states that is explored.
WithinBounds ==
    /\ time_taken >= -(Scale * MaxTime) /\ time_taken <= Scale * MaxTime
    /\ \A i \in 1..Len(pos) : pos[i] >= -MaxDrift /\ pos[i] <= One + MaxDrift

\* The loop continues while the applier has not reported "done".
LoopRuns == pc = "detect" /\ Len(pos) > 0

\* let event = ants.find_next_event();
FindNextEvent ==
    /\ LoopRuns
    /\ WithinBounds
    /\ event' = find_next_event(pos, dists, facing_up)
    /\ pc' = IF event'.kind = "Panic" THEN "panic" ELSE "apply"
    /\ UNCHANGED <<pos, dists, facing_up, time_taken>>

\* ants.take_step(event);
TakeStep ==
    /\ pc = "apply"
    /\ LET r == take_step(pos, dists, facing_up, time_taken, event)
       IN  /\ pos' = r.pos
           /\ dists' = r.dists
           /\ facing_up' = r.facing_up
           /\ time_taken' = r.time_taken
           /\ pc' = IF r.ret THEN "done" ELSE "detect"
    /\ UNCHANGED event

Next == FindNextEvent \/ TakeStep

Spec == Init /\ [][Next]_vars

\* The loop is a sequential program: a step that can be taken is taken.
FairSpec == Spec /\ WF_vars(Next)

----------------------------------------------------------------------------
\* fn from_positions: the ensemble built from the two vectors as given.
from_positions(p, f) ==
    [pos |-> p, dists |-> diff(p), facing_up |-> f, time_taken |-> 0]

\* The vectors a caller may hand to from_positions: any positions on the
\* grid, up to one step outside [0, 1], and any directions, with lengths
\* chosen independently.
CtorInit ==
    \E n \in 0..MaxInput, m \in 0..MaxInput :
      \E p \in [1..n -> {2 * k : k \in -1..(Grid + 1)}] :
        \E f \in [1..m -> BOOLEAN] :
          /\ pos = p
          /\ facing_up = f
          /\ dists = <<>>
          /\ time_taken = 0
          /\ pc = "input"
          /\ event = NoEvent

\* Ants::from_positions(pos, facing_up)
FromPositions ==
    /\ pc = "input"
    /\ LET a == from_positions(pos, facing_up)
       IN  /\ pos' = a.pos
           /\ dists' = a.dists
           /\ facing_up' = a.facing_up
           /\ time_taken' = a.time_taken
    /\ pc' = "detect"
    /\ UNCHANGED event

CtorNext == FromPositions

CtorSpec == CtorInit /\ [][CtorNext]_vars

TypeOK ==
    /\ pc \in {"input", "detect", "apply", "done", "panic"}
    /\ Len(pos) = Len(facing_up)
    /\ \A i \in 1..Len(dists) : dists[i] % 2 = 0

----------------------------------------------------------------------------
\* C1: every run of the loop reaches "done".  Stated for the runs that stay
\* inside the explored window, so that a violation is a genuine cycle of
\* the loop and not the edge of the exploration.
C1_Terminates == <>(pc = "done" \/ ~WithinBounds)

\* C2: pos is ascending by index in every reachable state.  The order of
\* two neighbours is never reversed (pos[i] <= pos[i+1]); the claim's strict
\* form implies this.
C2_Sorted == \A i \in 1..(Len(pos) - 1) : pos[i] <= pos[i + 1]

\* C3: a returned AntsCollide{idx_of_first: i} names a pair (i, i+1) with
\* ant i facing up and ant i+1 facing down, whose half-gap dists[i]/2 is the
\* minimum over all such pairs, and i is the lowest index attaining it.
C3_CollisionIdentified ==
    (pc = "apply" /\ event.kind = "AntsCollide") =>
        LET i == event.idx_of_first
            Facing == {j \in 0..(Len(pos) - 2) :
                          facing_up[j + 1] /\ ~facing_up[j + 2]}
        IN  /\ i \in Facing
            /\ \A j \in Facing : dists[i + 1] \div 2 <= dists[j + 1] \div 2
            /\ \A j \in Facing :
                 (dists[j + 1] \div 2 = dists[i + 1] \div 2) => i <= j

\* C4: take_step leaves the number of ants unchanged on a collision and
\* lowers it by exactly 1 on a departure, the last ant's included.
C4_Population ==
    [][pc = "apply" =>
         IF event.kind = "AntsCollide"
         THEN Len(pos') = Len(pos)
         ELSE Len(pos') = Len(pos) - 1]_vars

\* C5: time_taken never decreases, and it strictly increases on every step
\* whose event distance (the candidate distance of the returned event) is
\* non-zero.
C5_TimeMonotone ==
    [][/\ time_taken' >= time_taken
       /\ pc = "apply" =>
            LET dist == IF event.kind = "AntDropsOffTop"
                           THEN top_dist(pos, facing_up)
                        ELSE IF event.kind = "AntDropsOffBottom"
                           THEN btm_dist(pos, facing_up)
                        ELSE ant_dist_idx(facing_up, dists)[1]
            IN  dist # 0 => time_taken' > time_taken]_vars

\* C6: find_next_event returns AntDropsOffTop exactly when the top candidate
\* is available and <= the bottom candidate and <= every collision
\* candidate; otherwise AntDropsOffBottom exactly when the bottom candidate
\* is available and <= every collision candidate; otherwise a collision.
\* The chosen kind has the smallest distance of all available candidates.
C6_Selection ==
    pc = "apply" =>
        LET n == Len(pos)
            top_av == facing_up[n]
            topd == One - pos[n]
            btm_av == ~facing_up[1]
            btmd == pos[1]
            Coll == {dists[j] \div 2 :
                        j \in {k \in 1..(n - 1) :
                                  facing_up[k] /\ ~facing_up[k + 1]}}
            TopWins == /\ top_av
                       /\ btm_av => topd <= btmd
                       /\ \A c \in Coll : topd <= c
            BtmWins == /\ ~TopWins
                       /\ btm_av
                       /\ \A c \in Coll : btmd <= c
            Avail == (IF top_av THEN {topd} ELSE {})
                       \cup (IF btm_av THEN {btmd} ELSE {}) \cup Coll
            chosen == IF event.kind = "AntDropsOffTop" THEN {topd}
                      ELSE IF event.kind = "AntDropsOffBottom" THEN {btmd}
                      ELSE Coll
        IN  /\ event.kind = IF TopWins THEN "AntDropsOffTop"
                            ELSE IF BtmWins THEN "AntDropsOffBottom"
                            ELSE "AntsCollide"
            /\ \E d \in chosen : \A a \in Avail : d <= a

\* C6 witness: a tie between the top and the bottom candidate with at least
\* two ants, and a returned event.
C6_Witness ==
    /\ pc = "apply"
    /\ Len(pos) >= 2
    /\ facing_up[Len(pos)] /\ ~facing_up[1]
    /\ One - pos[Len(pos)] = pos[1]
    /\ event.kind = "AntDropsOffTop"

\* C7: with exactly one ant at position p, take_step adds Scale * p for
\* AntDropsOffBottom and Scale * (1 - p) for AntDropsOffTop.
C7_LastAntTime ==
    [][(pc = "apply" /\ Len(pos) = 1) =>
         time_taken' = time_taken +
            (IF event.kind = "AntDropsOffBottom"
             THEN Scale * pos[1]
             ELSE Scale * (One - pos[1]))]_vars

\* C8: take_step has returned true exactly when pos (and facing_up) is
\* empty.
C8_DoneIffEmpty ==
    (pc = "done") <=> (Len(pos) = 0 /\ Len(facing_up) = 0)

\* C9: AntDropsOffBottom on n >= 2 ants keeps the old ants 1..n-1 in order
\* with their directions, each moved by d = old pos[0] in its direction;
\* dists is the adjacent differences of the new positions; time_taken grows
\* by Scale * d; false is returned.
C9_BottomDeparture ==
    [][(pc = "apply" /\ event.kind = "AntDropsOffBottom" /\ Len(pos) >= 2) =>
         LET n == Len(pos)
             d == pos[1]
         IN  /\ Len(pos') = n - 1
             /\ Len(facing_up') = n - 1
             /\ \A j \in 1..(n - 1) :
                  /\ facing_up'[j] = facing_up[j + 1]
                  /\ pos'[j] = IF facing_up[j + 1] THEN pos[j + 1] + d
                                                  ELSE pos[j + 1] - d
             /\ Len(dists') = n - 2
             /\ \A j \in 1..(n - 2) : dists'[j] = pos'[j + 1] - pos'[j]
             /\ time_taken' = time_taken + Scale * d
             /\ pc' = "detect"]_vars

\* C9 witness: a bottom departure has left at least two ants, one facing up
\* and one facing down, after a non-zero move.
C9_Witness ==
    /\ pc = "detect"
    /\ event.kind = "AntDropsOffBottom"
    /\ Len(pos) >= 2
    /\ \E i, j \in 1..Len(pos) : facing_up[i] /\ ~facing_up[j]
    /\ time_taken > 0

\* C10: AntDropsOffTop on n >= 2 ants keeps the old ants 0..n-2 in order
\* with their directions, each moved by d = 1 - old pos[n-1] in its
\* direction; dists is the adjacent differences of the new positions;
\* time_taken grows by Scale * d; false is returned.
C10_TopDeparture ==
    [][(pc = "apply" /\ event.kind = "AntDropsOffTop" /\ Len(pos) >= 2) =>
         LET n == Len(pos)
             d == One - pos[n]
         IN  /\ Len(pos') = n - 1
             /\ Len(facing_up') = n - 1
             /\ \A j \in 1..(n - 1) :
                  /\ facing_up'[j] = facing_up[j]
                  /\ pos'[j] = IF facing_up[j] THEN pos[j] + d
                                              ELSE pos[j] - d
             /\ Len(dists') = n - 2
             /\ \A j \in 1..(n - 2) : dists'[j] = pos'[j + 1] - pos'[j]
             /\ time_taken' = time_taken + Scale * d
             /\ pc' = "detect"]_vars

\* C10 witness: a top departure has left at least two ants, one facing up
\* and one facing down, after a non-zero move.
C10_Witness ==
    /\ pc = "detect"
    /\ event.kind = "AntDropsOffTop"
    /\ Len(pos) >= 2
    /\ \E i, j \in 1..Len(pos) : facing_up[i] /\ ~facing_up[j]
    /\ time_taken > 0

\* C11: AntsCollide{idx_of_first: i} moves every ant by
\* d = (old pos[i+1] - old pos[i]) / 2 in its own old direction, negates
\* only the directions of ants i and i+1, keeps the number of ants, leaves
\* dists the adjacent differences of the new positions, adds Scale * d to
\* time_taken and returns false.
C11_CollisionStep ==
    [][(pc = "apply" /\ event.kind = "AntsCollide") =>
         LET n == Len(pos)
             i == event.idx_of_first
             d == (pos[i + 2] - pos[i + 1]) \div 2
         IN  /\ 2 * d = pos[i + 2] - pos[i + 1]
             /\ Len(pos') = n
             /\ Len(facing_up') = n
             /\ \A j \in 1..n :
                  /\ pos'[j] = IF facing_up[j] THEN pos[j] + d ELSE pos[j] - d
                  /\ facing_up'[j] = IF j = i + 1 \/ j = i + 2
                                     THEN ~facing_up[j] ELSE facing_up[j]
             /\ Len(dists') = n - 1
             /\ \A j \in 1..(n - 1) : dists'[j] = pos'[j + 1] - pos'[j]
             /\ time_taken' = time_taken + Scale * d
             /\ pc' = "detect"]_vars

\* C11 witness: a collision step with a non-zero move has been applied to
\* at least three ants, and some ant outside the pair kept its direction.
C11_Witness ==
    /\ pc = "detect"
    /\ event.kind = "AntsCollide"
    /\ Len(pos) >= 3
    /\ time_taken > 0
    /\ \E j \in 1..Len(pos) :
         j # event.idx_of_first + 1 /\ j # event.idx_of_first + 2

\* C12: every position held in pos lies in the closed interval [0, 1].
C12_InRange == \A i \in 1..Len(pos) : pos[i] >= 0 /\ pos[i] <= One

\* C13: pos and facing_up have the same length, dists has
\* max(len(pos) - 1, 0) entries, and dists[i] = pos[i+1] - pos[i] for all i.
C13_Structure ==
    /\ Len(pos) = Len(facing_up)
    /\ Len(dists) = (IF Len(pos) >= 1 THEN Len(pos) - 1 ELSE 0)
    /\ \A i \in 1..Len(dists) : dists[i] = pos[i + 1] - pos[i]

\* C13 witness: a bottom departure with a non-zero move has left at least
\* two ants, so that dists was recomputed and is not empty.
C13_Witness ==
    /\ pc = "detect"
    /\ event.kind = "AntDropsOffBottom"
    /\ time_taken > 0
    /\ Len(dists) >= 1
    /\ dists[1] > 0

\* C14: an ensemble is built only from valid input: vectors of different
\* lengths, or a position outside [0, 1], are rejected with an error, so
\* every ensemble handed to the detector has aligned vectors and positions
\* in [0, 1].
C14_InvalidRejected ==
    pc = "detect" =>
        /\ Len(pos) = Len(facing_up)
        /\ \A i \in 1..Len(pos) : pos[i] >= 0 /\ pos[i] <= One

\* C15: with exactly one ant find_next_event never returns a collision: it
\* returns AntDropsOffTop if the ant faces up and AntDropsOffBottom if it
\* faces down.
C15_SingleAnt ==
    (pc = "apply" /\ Len(pos) = 1) =>
        event.kind = IF facing_up[1] THEN "AntDropsOffTop"
                                     ELSE "AntDropsOffBottom"

\* C15 witness: the last ant of a longer run faces down and the detector
\* has returned its event.
C15_Witness ==
    /\ pc = "apply"
    /\ Len(pos) = 1
    /\ ~facing_up[1]
    /\ time_taken > 0

\* C16: find_next_event always returns one of the three events; the panic
\* after the three-way comparison is never reached.
C16_NoFallThrough ==
    /\ pc # "panic"
    /\ pc = "apply" =>
         event.kind \in {"AntDropsOffTop", "AntDropsOffBottom", "AntsCollide"}

\* C16 witness: in an intermediate state of a run the bottom candidate and
\* the least collision candidate are equal, and the detector has returned.
C16_Witness ==
    /\ pc = "apply"
    /\ time_taken > 0
    /\ Len(pos) >= 2
    /\ ~facing_up[1]
    /\ btm_dist(pos, facing_up) = ant_dist_idx(facing_up, dists)[1]

\* C17: find_next_event returns AntDropsOffBottom only if ant 0 faces down,
\* AntDropsOffTop only if the last ant faces up, and a collision only if
\* some adjacent pair faces each other; at least one of the three
\* candidates is available.
C17_ExcludedNeverChosen ==
    pc = "apply" =>
        LET n == Len(pos)
            SomePairFaces == \E j \in 1..(n - 1) :
                                facing_up[j] /\ ~facing_up[j + 1]
        IN  /\ event.kind = "AntDropsOffBottom" => ~facing_up[1]
            /\ event.kind = "AntDropsOffTop" => facing_up[n]
            /\ event.kind = "AntsCollide" => SomePairFaces
            /\ ~facing_up[1] \/ facing_up[n] \/ SomePairFaces

\* C17 witness: both departures are excluded (ant 0 faces up, the last ant
\* faces down) in an intermediate state and a collision has been returned.
C17_Witness ==
    /\ pc = "apply"
    /\ time_taken > 0
    /\ facing_up[1]
    /\ ~facing_up[Len(pos)]
    /\ event.kind = "AntsCollide"

\* C18: when the run reports done, time_taken equals Scale times the
\* largest distance, over the initial ants, to the end each initially faces
\* (pos for an ant facing down, 1 - pos for an ant facing up).  v ranges
\* over the values that distance can take in the initial state.
C18_PassThrough ==
    \A v \in 0..One :
        (\A w \in 0..One :
            (w = v) <=>
               /\ \E i \in 1..Len(pos) :
                    w = IF facing_up[i] THEN One - pos[i] ELSE pos[i]
               /\ \A i \in 1..Len(pos) :
                    w >= IF facing_up[i] THEN One - pos[i] ELSE pos[i])
        => [](pc = "done" => time_taken = Scale * v)
====
